---- MODULE Spec2Model ----
(***************************************************************************)
(* Model of functions/get-segment-id.js: the process-wide token cache, the *)
(* handler with its single invalidate-and-retry path, the two-level token  *)
(* accessor, the report pipeline (validElements -> execute/raw -> poll)    *)
(* and the CSV parser.                                                     *)
(*                                                                         *)
(* One action is the code that runs between two network or timer awaits:   *)
(* a response handler runs to completion (Node's run-to-completion of the  *)
(* promise chain) up to the next axios call, setTimeout or callback.       *)
(* pc[p] names the request an invocation is waiting on.                    *)
(***************************************************************************)
EXTENDS Integers, Sequences, FiniteSets, TLC

\* ---------------------------------------------------------------- bounds
NumProcs == 2      \* handler invocations that share the warm container
MaxTicks == 2      \* clock advances explored
MaxItems == 1      \* validElements items the remote returns at most
MaxExpiry == 64    \* isCacheValid on its own: timestamps tried, in clock units
MaxToken == 2      \* invalidateTokenCache on its own: token values tried
MaxLen == 5        \* parseSegmentIds on its own: length of the texts tried

\* ------------------------------------------------------ program constants
Null == 0                       \* null / undefined (tokens are 1, 2, ...)
SafetyBufferMs == 60000         \* isCacheValid: 60 second buffer
SstTtlMs == 14 * 24 * 60 * 60 * 1000
TtTtlMs == 10 * 60 * 1000
MaxPollAttempts == 10           \* for (let i = 0; i < 10; i++)

\* Date.now() is read at a resolution of one second: the clock, and every
\* expiry stored in the cache, counts units of ClockUnitMs milliseconds (all
\* the program's durations are whole seconds; twice the SST lifetime in
\* milliseconds is beyond TLC's 32-bit integers)
ClockUnitMs == 1000
Units(ms) == ms \div ClockUnitMs

Procs == 1..NumProcs

\* Clock advances: half of the TT's usable lifetime (two of them land exactly
\* on ttExpiry - 60000) and a jump that lands one such advance before
\* sstExpiry - 60000.
Ticks == {Units((TtTtlMs - SafetyBufferMs) \div 2),
          Units(SstTtlMs - SafetyBufferMs - (TtTtlMs - SafetyBufferMs) \div 2)}

\* --------------------------------------------------------------- strings
\* String.prototype.toLowerCase on one character
LowerChar(c) ==
    CASE c = "A" -> "a" [] c = "B" -> "b" [] c = "C" -> "c" [] c = "D" -> "d"
      [] c = "E" -> "e" [] c = "F" -> "f" [] c = "G" -> "g" [] c = "H" -> "h"
      [] c = "I" -> "i" [] c = "J" -> "j" [] c = "K" -> "k" [] c = "L" -> "l"
      [] c = "M" -> "m" [] c = "N" -> "n" [] c = "O" -> "o" [] c = "P" -> "p"
      [] c = "Q" -> "q" [] c = "R" -> "r" [] c = "S" -> "s" [] c = "T" -> "t"
      [] c = "U" -> "u" [] c = "V" -> "v" [] c = "W" -> "w" [] c = "X" -> "x"
      [] c = "Y" -> "y" [] c = "Z" -> "z" [] OTHER -> c

\* the characters of s from position k on, each in lower case
RECURSIVE LowerFrom(_, _)
LowerFrom(s, k) ==
    IF k > Len(s) THEN ""
    ELSE LowerChar(SubSeq(s, k, k)) \o LowerFrom(s, k + 1)

\* String.prototype.toLowerCase
toLowerCase(s) == LowerFrom(s, 1)

\* String.prototype.includes
includes(s, pat) ==
    \E text \in {s} :
        \E k \in 1..(Len(text) - Len(pat) + 1) :
            SubSeq(text, k, k + Len(pat) - 1) = pat

\* decimal text of the HTTP statuses the model uses (template literal)
StatusText(s) ==
    CASE s = 401 -> "401" [] s = 403 -> "403" [] s = 404 -> "404"
      [] s = 500 -> "500" [] OTHER -> "0"

\* ---------------------------------------------------------------- errors
\* new Error(message): no response attached
Error(message) == [status |-> Null, message |-> message]

\* the error axios rejects with on a non-2xx response
AxiosError(s) ==
    [status |-> s, message |-> "Request failed with status code " \o StatusText(s)]

\* statuses the remote answers a failed request with
ErrStatuses == {401, 403, 500}

\* statuses of the poll endpoint that axios resolves and that are not 200:
\* the report is not ready yet
PendingStatuses == {202}

isAuthErrorAlways(error) == TRUE

isAuthError(error) ==
    LET status == error.status
        message == toLowerCase(error.message)
    IN  \/ status = 401
        \/ status = 403
        \/ includes(message, "auth")
        \/ includes(message, "unauthorized")

\* ----------------------------------------------------------- token cache
EmptyCache == [sst |-> Null, sstExpiry |-> Null, tt |-> Null, ttExpiry |-> Null]

isCacheValidNoBuffer(expiryTimestamp, t) ==
    IF expiryTimestamp = Null THEN FALSE ELSE t < expiryTimestamp

isCacheValidInclusive(expiryTimestamp, t) ==
    IF expiryTimestamp = Null THEN FALSE
    ELSE t <= expiryTimestamp - Units(SafetyBufferMs)

isCacheValid(expiryTimestamp, t) ==
    IF expiryTimestamp = Null THEN FALSE
    ELSE t < expiryTimestamp - Units(SafetyBufferMs)

invalidateKeepExpiry(cache) == [cache EXCEPT !.tt = Null, !.sst = Null]

invalidateHalfAccessSlot(cache) ==
    [cache EXCEPT !.tt = Null, !.sst = Null, !.sstExpiry = Null]

invalidateKeepSst(cache) == [cache EXCEPT !.tt = Null, !.ttExpiry = Null]

invalidateTokenCache(cache) ==
    [cache EXCEPT !.tt = Null, !.ttExpiry = Null, !.sst = Null, !.sstExpiry = Null]

\* ------------------------------------------------------------ CSV parser
IsSpace(c) == c \in {" ", "\t", "\n", "\r"}

RECURSIVE trimStart(_)
trimStart(s) ==
    IF Len(s) > 0 /\ IsSpace(SubSeq(s, 1, 1)) THEN trimStart(SubSeq(s, 2, Len(s)))
    ELSE s

RECURSIVE trimEnd(_)
trimEnd(s) ==
    IF Len(s) > 0 /\ IsSpace(SubSeq(s, Len(s), Len(s)))
    THEN trimEnd(SubSeq(s, 1, Len(s) - 1))
    ELSE s

\* String.prototype.trim
trim(s) == trimEnd(trimStart(s))

\* length of the prefix of s before the first "\n" (Len(s) when there is none)
RECURSIVE LineLen(_)
LineLen(s) ==
    IF Len(s) = 0 \/ SubSeq(s, 1, 1) = "\n" THEN 0
    ELSE 1 + LineLen(SubSeq(s, 2, Len(s)))

\* s.split('\n'): always at least one piece
RECURSIVE split(_)
split(s) ==
    LET n == LineLen(s)
    IN  IF n = Len(s) THEN <<s>>
        ELSE <<SubSeq(s, 1, n)>> \o split(SubSeq(s, n + 2, Len(s)))

\* length of the maximal prefix of s matching [^",]*
RECURSIVE FieldLen(_)
FieldLen(s) ==
    IF Len(s) = 0 \/ SubSeq(s, 1, 1) \in {"\"", ","} THEN 0
    ELSE 1 + FieldLen(SubSeq(s, 2, Len(s)))

matchFieldNoTrim(line) ==
    LET rest == IF Len(line) > 0 /\ SubSeq(line, 1, 1) = "\""
                THEN SubSeq(line, 2, Len(line)) ELSE line
        n == FieldLen(rest)
    IN  IF n = 0 THEN [found |-> FALSE, value |-> ""]
        ELSE [found |-> TRUE, value |-> SubSeq(rest, 1, n)]

\* line.match(/^"?([^",]+)"?/)?.[1]?.trim(); found = FALSE is undefined
matchField(line) ==
    LET rest == IF Len(line) > 0 /\ SubSeq(line, 1, 1) = "\""
                THEN SubSeq(line, 2, Len(line)) ELSE line
        n == FieldLen(rest)
    IN  IF n = 0 THEN [found |-> FALSE, value |-> ""]
        ELSE [found |-> TRUE, value |-> trim(SubSeq(rest, 1, n))]

\* .filter(Boolean): undefined and "" are dropped
RECURSIVE filterFields(_)
filterFields(lines) ==
    IF Len(lines) = 0 THEN <<>>
    ELSE LET f == matchField(Head(lines))
         IN  (IF f.found /\ f.value # "" THEN <<f.value>> ELSE <<>>)
                 \o filterFields(Tail(lines))

\* csvData is [isString, text]: axios hands back a string or a parsed value
parseSegmentIds(csvData) ==
    IF ~csvData.isString \/ csvData.text = "" THEN <<>>
    ELSE LET lines == split(trim(csvData.text))
         IN  IF Len(lines) <= 1 THEN <<>> ELSE filterFields(Tail(lines))

\* ----------------------------------------------------------------- state
VARIABLES
    tokenCache,   \* the global tokenCache object: sst, sstExpiry, tt, ttExpiry
    now,          \* Date.now(), in units of ClockUnitMs
    ticks,        \* clock advances made so far
    pc,           \* per invocation: the request it awaits, "idle" or "done"
    frame,        \* per invocation: the handler's locals and its response
    trace,        \* per invocation: remote calls, stored tokens, throws so far
    helperCall    \* a helper function called on its own: arguments and result

vars == <<tokenCache, now, ticks, pc, frame, trace, helperCall>>

\* identifiers the caller sends; "" is the missing TaskSid
TaskSids == {"", "WT1", "Auth7"}

\* raw report output the poll endpoint can return
Payloads == {[isString |-> TRUE, text |-> "Segment\n\"55\",x\n 7 ,y\n,z\n"],
             [isString |-> TRUE, text |-> "Segment\n"],
             [isString |-> FALSE, text |-> ""]}

NoBody == [kind |-> "none", error |-> "", segment_ids |-> <<>>]
ErrorBody(message) == [kind |-> "error", error |-> message, segment_ids |-> <<>>]
SegmentBody(ids) == [kind |-> "segment_ids", error |-> "", segment_ids |-> ids]

\* a local that holds no report data yet (undefined)
Undefined == [isString |-> FALSE, text |-> "undefined"]

\* lastStatus is the status of the poll's latest response (response.status or
\* error.response.status); csvData is the handler's local of lines 89 and 102
IdleFrame ==
    [TaskSid |-> "", phase |-> "none", token |-> Null, elementUris |-> <<>>,
     uri |-> Null, i |-> 0, fetches |-> 0, waits |-> 0, lastStatus |-> Null,
     csvData |-> Undefined, status |-> Null, body |-> NoBody, callbacks |-> 0]

\* no helper function is being examined on its own
NoCall == [fn |-> "none"]

\* trace entries
Ev(op, tok) == [op |-> op, tok |-> tok, status |-> Null, message |-> ""]
Thrown(error) ==
    [op |-> "throw", tok |-> Null, status |-> error.status, message |-> error.message]

\* the tokens some part of the program still holds
TokensHeld ==
    ({tokenCache.sst, tokenCache.tt}
        \cup {frame[p].token : p \in Procs}
        \cup UNION {{trace[p][k].tok : k \in 1..Len(trace[p])} : p \in Procs})
    \ {Null}

\* the remote issues a token no part of the program holds
FreshToken ==
    CHOOSE n \in 1..(Cardinality(TokensHeld) + 1) :
        n \notin TokensHeld /\ \A m \in 1..(n - 1) : m \in TokensHeld

Init ==
    /\ tokenCache = EmptyCache
    /\ now = 0
    /\ ticks = 0
    /\ pc = [p \in Procs |-> "idle"]
    /\ frame = [p \in Procs |-> IdleFrame]
    /\ trace = [p \in Procs |-> <<>>]
    /\ helperCall = NoCall

\* ------------------------------------------------------- handler fragments
\* callback(null, response)
Respond(p, fr, tr, status, body) ==
    /\ pc' = [pc EXCEPT ![p] = "done"]
    /\ frame' = [frame EXCEPT ![p] = [fr EXCEPT !.status = status, !.body = body,
                                                !.callbacks = fr.callbacks + 1]]
    /\ trace' = [trace EXCEPT ![p] = tr]

\* issue the request named op and wait for its response
Await(p, fr, tr, op, tok) ==
    /\ pc' = [pc EXCEPT ![p] = op]
    /\ frame' = [frame EXCEPT ![p] = fr]
    /\ trace' = [trace EXCEPT ![p] = Append(tr, Ev(op, tok))]

\* downloadReportCsv's GET of the execution URI (counted, not traced)
Fetch(p, fr, tr) ==
    /\ pc' = [pc EXCEPT ![p] = "fetch"]
    /\ frame' = [frame EXCEPT ![p] = [fr EXCEPT !.fetches = fr.fetches + 1]]
    /\ trace' = [trace EXCEPT ![p] = tr]

\* downloadReportCsv's setTimeout(resolve, 1000) (counted, not traced)
Wait(p, fr, tr) ==
    /\ pc' = [pc EXCEPT ![p] = "wait"]
    /\ frame' = [frame EXCEPT ![p] = [fr EXCEPT !.waits = fr.waits + 1]]
    /\ trace' = [trace EXCEPT ![p] = tr]

\* executeReport(token, ...) up to the validElements request
executeReport(p, fr, tr, token) ==
    Await(p, [fr EXCEPT !.token = token, !.elementUris = <<>>, !.uri = Null,
                        !.i = 0, !.fetches = 0, !.waits = 0],
          tr, "validElements", token)

\* the handler's block that getCachedTempToken returns into
PhaseAfterAuth(phase) == IF phase = "auth" THEN "try" ELSE phase

getTempTokenStaleSst(p, cache, fr, tr) == Await(p, fr, tr, "exchange", tokenCache.sst)

\* getTempToken() up to the token request, which carries tokenCache.sst
getTempToken(p, cache, fr, tr) == Await(p, fr, tr, "exchange", cache.sst)

getCachedTempTokenSkipSstCheck(p, cache, fr, tr) ==
    IF cache.tt # Null /\ isCacheValid(cache.ttExpiry, now)
    THEN executeReport(p, [fr EXCEPT !.phase = PhaseAfterAuth(fr.phase)],
                       Append(tr, Ev("hit", cache.tt)), cache.tt)
    ELSE IF cache.sst = Null
    THEN Await(p, fr, tr, "login", Null)
    ELSE getTempToken(p, cache, fr, tr)

getCachedTempTokenNoCache(p, cache, fr, tr) ==
    IF cache.sst = Null \/ ~isCacheValid(cache.sstExpiry, now)
    THEN Await(p, fr, tr, "login", Null)
    ELSE getTempToken(p, cache, fr, tr)

getCachedTempTokenAlwaysLogin(p, cache, fr, tr) ==
    IF cache.tt # Null /\ isCacheValid(cache.ttExpiry, now)
    THEN executeReport(p, [fr EXCEPT !.phase = PhaseAfterAuth(fr.phase)],
                       Append(tr, Ev("hit", cache.tt)), cache.tt)
    ELSE Await(p, fr, tr, "login", Null)

\* getCachedTempToken(username, password) up to its first request; on a
\* cache hit it returns at once and the handler goes on to executeReport
getCachedTempToken(p, cache, fr, tr) ==
    IF cache.tt # Null /\ isCacheValid(cache.ttExpiry, now)
    THEN executeReport(p, [fr EXCEPT !.phase = PhaseAfterAuth(fr.phase)],
                       Append(tr, Ev("hit", cache.tt)), cache.tt)
    ELSE IF cache.sst = Null \/ ~isCacheValid(cache.sstExpiry, now)
    THEN Await(p, fr, tr, "login", Null)
    ELSE getTempToken(p, cache, fr, tr)

\* the handler's locals once control is in the inner catch: the try block's
\* token, reportExecution and csvData and the callees' locals are out of scope
InCatch(fr) ==
    [fr EXCEPT !.phase = "catch", !.token = Null, !.elementUris = <<>>,
               !.uri = Null, !.i = 0, !.fetches = 0, !.waits = 0,
               !.lastStatus = Null]

shouldRetryAnyPhase(phase, error, cache) ==
    phase \in {"try", "catch"} /\ isAuthError(error) /\ cache.tt # Null

shouldRetryAnyBlock(phase, error, cache) == isAuthError(error)

\* the inner catch runs for errors of the try block of lines 87-94 only, and
\* retries on isAuthError(error) && tokenCache.tt
shouldRetry(phase, error, cache) ==
    phase = "try" /\ isAuthError(error) /\ cache.tt # Null

ThrowUncaught(p, cache, fr, tr, error) ==
    LET tr2 == Append(tr, Thrown(error))
    IN  IF shouldRetry(fr.phase, error, cache)
        THEN LET cleared == invalidateTokenCache(cache)
             IN  /\ tokenCache' = cleared
                 /\ getCachedTempToken(p, cleared, InCatch(fr),
                                       Append(tr2, Ev("invalidate", Null)))
        ELSE IF fr.phase = "catch"
        THEN /\ tokenCache' = cache
             /\ pc' = [pc EXCEPT ![p] = "rejected"]
             /\ frame' = [frame EXCEPT ![p] = fr]
             /\ trace' = [trace EXCEPT ![p] = tr2]
        ELSE /\ tokenCache' = cache
             /\ Respond(p, fr, tr2, 500, ErrorBody(error.message))

\* an error thrown in the handler: the inner catch (invalidate, fetch a token
\* again, run the pipeline again) or the outer catch (500 with the message)
Throw(p, cache, fr, tr, error) ==
    LET tr2 == Append(tr, Thrown(error))
    IN  IF shouldRetry(fr.phase, error, cache)
        THEN LET cleared == invalidateTokenCache(cache)
             IN  /\ tokenCache' = cleared
                 /\ getCachedTempToken(p, cleared, InCatch(fr),
                                       Append(tr2, Ev("invalidate", Null)))
        ELSE /\ tokenCache' = cache
             /\ Respond(p, fr, tr2, 500, ErrorBody(error.message))

\* ---------------------------------------------------------------- actions
handlerConfigFirst(p, TaskSid, configured) ==
    LET fr == [IdleFrame EXCEPT !.TaskSid = TaskSid, !.phase = "auth"]
    IN  IF ~configured
        THEN /\ tokenCache' = tokenCache
             /\ Respond(p, fr, <<>>, 500,
                        ErrorBody("Missing required environment variables"))
        ELSE IF TaskSid = ""
        THEN /\ tokenCache' = tokenCache
             /\ Respond(p, fr, <<>>, 400, ErrorBody("TaskSid is required"))
        ELSE /\ tokenCache' = tokenCache
             /\ getCachedTempToken(p, tokenCache, fr, <<>>)

\* exports.handler up to its first request (lines 68-85)
handler(p, TaskSid, configured) ==
    LET fr == [IdleFrame EXCEPT !.TaskSid = TaskSid, !.phase = "auth"]
    IN  IF TaskSid = ""
        THEN /\ tokenCache' = tokenCache
             /\ Respond(p, fr, <<>>, 400, ErrorBody("TaskSid is required"))
        ELSE IF ~configured
        THEN /\ tokenCache' = tokenCache
             /\ Respond(p, fr, <<>>, 500,
                        ErrorBody("Missing required environment variables"))
        ELSE /\ tokenCache' = tokenCache
             /\ getCachedTempToken(p, tokenCache, fr, <<>>)

\* one invocation at a time: the next starts when none is in flight
Invoke(p) ==
    /\ \A q \in Procs : pc[q] = "idle"
    /\ \E TaskSid \in TaskSids, configured \in BOOLEAN :
           handler(p, TaskSid, configured)
    /\ UNCHANGED <<now, ticks, helperCall>>

\* getSuperSecuredToken after its await, then getCachedTempToken line 139
LoginResponse(p) ==
    /\ pc[p] = "login"
    /\ \/ LET sst == FreshToken
              cache == [tokenCache EXCEPT !.sst = sst, !.sstExpiry = now + Units(SstTtlMs)]
          IN  /\ tokenCache' = cache
              /\ getTempToken(p, cache, frame[p], Append(trace[p], Ev("sst", sst)))
       \/ Throw(p, tokenCache, frame[p], trace[p], Error("Authentication failed"))
       \/ \E s \in ErrStatuses :
              Throw(p, tokenCache, frame[p], trace[p], AxiosError(s))
    /\ UNCHANGED <<now, ticks, helperCall>>

ExchangeResponseKeepExpiry(p) ==
    /\ pc[p] = "exchange"
    /\ \/ LET tt == FreshToken
              cache == [tokenCache EXCEPT
                           !.tt = tt,
                           !.ttExpiry = IF isCacheValid(tokenCache.ttExpiry, now)
                                        THEN tokenCache.ttExpiry
                                        ELSE now + Units(TtTtlMs)]
          IN  /\ tokenCache' = cache
              /\ executeReport(p,
                     [frame[p] EXCEPT !.phase = PhaseAfterAuth(frame[p].phase)],
                     Append(trace[p], Ev("tt", tt)), cache.tt)
       \/ Throw(p, tokenCache, frame[p], trace[p],
                Error("Failed to get temporary token"))
       \/ \E s \in ErrStatuses :
              Throw(p, tokenCache, frame[p], trace[p], AxiosError(s))
    /\ UNCHANGED <<now, ticks, helperCall>>

\* getTempToken after its await, getCachedTempToken's return of tokenCache.tt
\* and the handler's call of executeReport
ExchangeResponse(p) ==
    /\ pc[p] = "exchange"
    /\ \/ LET tt == FreshToken
              cache == [tokenCache EXCEPT !.tt = tt, !.ttExpiry = now + Units(TtTtlMs)]
          IN  /\ tokenCache' = cache
              /\ executeReport(p,
                     [frame[p] EXCEPT !.phase = PhaseAfterAuth(frame[p].phase)],
                     Append(trace[p], Ev("tt", tt)), cache.tt)
       \/ Throw(p, tokenCache, frame[p], trace[p],
                Error("Failed to get temporary token"))
       \/ \E s \in ErrStatuses :
              Throw(p, tokenCache, frame[p], trace[p], AxiosError(s))
    /\ UNCHANGED <<now, ticks, helperCall>>

ValidElementsResponseNoCheck(p) ==
    /\ pc[p] = "validElements"
    /\ \/ \E n \in 0..MaxItems :
              /\ tokenCache' = tokenCache
              /\ Await(p, [frame[p] EXCEPT !.elementUris = [k \in 1..n |-> k]],
                       trace[p], "execute", frame[p].token)
       \/ \E s \in ErrStatuses :
              Throw(p, tokenCache, frame[p], trace[p], AxiosError(s))
    /\ UNCHANGED <<now, ticks, helperCall>>

\* findExternalIdElements after its await, then executeReport's execute/raw
ValidElementsResponse(p) ==
    /\ pc[p] = "validElements"
    /\ \/ \E n \in 0..MaxItems :
              IF n = 0
              THEN Throw(p, tokenCache, frame[p], trace[p],
                         Error("External ID '" \o frame[p].TaskSid
                                   \o "' not found in Flex Insights"))
              ELSE /\ tokenCache' = tokenCache
                   /\ Await(p, [frame[p] EXCEPT !.elementUris = [k \in 1..n |-> k]],
                            trace[p], "execute", frame[p].token)
       \/ \E s \in ErrStatuses :
              Throw(p, tokenCache, frame[p], trace[p], AxiosError(s))
    /\ UNCHANGED <<now, ticks, helperCall>>

\* executeReport after its second await (its elementUris go out of scope),
\* then downloadReportCsv's first GET
ExecuteResponse(p) ==
    /\ pc[p] = "execute"
    /\ \/ /\ tokenCache' = tokenCache
          /\ Fetch(p, [frame[p] EXCEPT !.elementUris = <<>>, !.uri = 1, !.i = 0],
                   trace[p])
       \/ Throw(p, tokenCache, frame[p], trace[p], Error("Report execution failed"))
       \/ \E s \in ErrStatuses :
              Throw(p, tokenCache, frame[p], trace[p], AxiosError(s))
    /\ UNCHANGED <<now, ticks, helperCall>>

FetchResponseAny2xx(p) ==
    /\ pc[p] = "fetch"
    /\ \/ \E csvData \in Payloads, s \in {200} \cup PendingStatuses :
              /\ tokenCache' = tokenCache
              /\ Respond(p, [frame[p] EXCEPT !.lastStatus = s, !.csvData = csvData],
                         Append(trace[p], Ev("parse", Null)), 200,
                         SegmentBody(parseSegmentIds(csvData)))
       \/ \E s \in ErrStatuses :
              Throw(p, tokenCache, [frame[p] EXCEPT !.lastStatus = s], trace[p],
                    AxiosError(s))
    /\ UNCHANGED <<now, ticks, helperCall>>

FetchResponseSwallow(p) ==
    /\ pc[p] = "fetch"
    /\ \/ \E csvData \in Payloads :
              /\ tokenCache' = tokenCache
              /\ Respond(p, [frame[p] EXCEPT !.lastStatus = 200, !.csvData = csvData],
                         Append(trace[p], Ev("parse", Null)), 200,
                         SegmentBody(parseSegmentIds(csvData)))
       \/ \E s \in PendingStatuses \cup ErrStatuses :
              /\ tokenCache' = tokenCache
              /\ Wait(p, [frame[p] EXCEPT !.lastStatus = s], trace[p])
    /\ UNCHANGED <<now, ticks, helperCall>>

\* one pass of downloadReportCsv's loop body after the GET: status 200 returns
\* the data to the handler (parse, 200, callback); another 2xx status falls
\* through to the timer; an error is rethrown unless its status is 202
FetchResponse(p) ==
    /\ pc[p] = "fetch"
    /\ \/ \E csvData \in Payloads :
              /\ tokenCache' = tokenCache
              /\ Respond(p, [frame[p] EXCEPT !.lastStatus = 200, !.csvData = csvData],
                         Append(trace[p], Ev("parse", Null)), 200,
                         SegmentBody(parseSegmentIds(csvData)))
       \/ \E s \in PendingStatuses :
              /\ tokenCache' = tokenCache
              /\ Wait(p, [frame[p] EXCEPT !.lastStatus = s], trace[p])
       \/ \E s \in ErrStatuses :
              IF s # 202
              THEN Throw(p, tokenCache, [frame[p] EXCEPT !.lastStatus = s], trace[p],
                         AxiosError(s))
              ELSE /\ tokenCache' = tokenCache
                   /\ Wait(p, [frame[p] EXCEPT !.lastStatus = s], trace[p])
    /\ UNCHANGED <<now, ticks, helperCall>>

TimerFiresOffByOne(p) ==
    /\ pc[p] = "wait"
    /\ LET fr == [frame[p] EXCEPT !.i = frame[p].i + 1]
       IN  IF fr.i <= MaxPollAttempts
           THEN /\ tokenCache' = tokenCache
                /\ Fetch(p, fr, trace[p])
           ELSE Throw(p, tokenCache, fr, trace[p],
                      Error("Report timeout after 10 seconds"))
    /\ UNCHANGED <<now, ticks, helperCall>>

\* the 1000 ms timer fires: i++, then the next GET or the timeout error
TimerFires(p) ==
    /\ pc[p] = "wait"
    /\ LET fr == [frame[p] EXCEPT !.i = frame[p].i + 1]
       IN  IF fr.i < MaxPollAttempts
           THEN /\ tokenCache' = tokenCache
                /\ Fetch(p, fr, trace[p])
           ELSE Throw(p, tokenCache, fr, trace[p],
                      Error("Report timeout after 10 seconds"))
    /\ UNCHANGED <<now, ticks, helperCall>>

\* the invocation is over; the slot serves a later invocation
Return(p) ==
    /\ pc[p] = "done"
    /\ pc' = [pc EXCEPT ![p] = "idle"]
    /\ frame' = [frame EXCEPT ![p] = IdleFrame]
    /\ trace' = [trace EXCEPT ![p] = <<>>]
    /\ UNCHANGED <<tokenCache, now, ticks, helperCall>>

\* the wall clock advances; the program reads it when an invocation starts
\* and when a login or token response is stored, so an advance during any
\* other wait is the same advance made before the next of these
Tick ==
    /\ ticks < MaxTicks
    /\ \/ \A p \in Procs : pc[p] = "idle"
       \/ \E p \in Procs : pc[p] \in {"login", "exchange"}
    /\ \E d \in Ticks : now' = now + d
    /\ ticks' = ticks + 1
    /\ UNCHANGED <<tokenCache, pc, frame, trace, helperCall>>

Next ==
    \/ Tick
    \/ \E p \in Procs :
        \/ Invoke(p)
        \/ LoginResponse(p)
        \/ ExchangeResponse(p)
        \/ ValidElementsResponse(p)
        \/ ExecuteResponse(p)
        \/ FetchResponse(p)
        \/ TimerFires(p)
        \/ Return(p)

Spec == Init /\ [][Next]_vars

\* every request gets a response (a result or an error) and every timer
\* fires; when an invocation arrives and how the clock advances is left open
RemoteCallsReturn ==
    \A p \in Procs :
        /\ WF_vars(LoginResponse(p))
        /\ WF_vars(ExchangeResponse(p))
        /\ WF_vars(ValidElementsResponse(p))
        /\ WF_vars(ExecuteResponse(p))
        /\ WF_vars(FetchResponse(p))
        /\ WF_vars(TimerFires(p))

\* the clock advances between invocations, by half of the access token's
\* usable lifetime
TickIdle ==
    /\ ticks < MaxTicks
    /\ \A p \in Procs : pc[p] = "idle"
    /\ now' = now + Units((TtTtlMs - SafetyBufferMs) \div 2)
    /\ ticks' = ticks + 1
    /\ UNCHANGED <<tokenCache, pc, frame, trace, helperCall>>

NextLive ==
    \/ TickIdle
    \/ \E p \in Procs :
        \/ Invoke(p)
        \/ LoginResponse(p)
        \/ ExchangeResponse(p)
        \/ ValidElementsResponse(p)
        \/ ExecuteResponse(p)
        \/ FetchResponse(p)
        \/ TimerFires(p)
        \/ Return(p)

SpecLive == Init /\ [][NextLive]_vars /\ RemoteCallsReturn

\* ------------------------------------------------- overlapping invocations
\* The container serves a second request while the first is suspended at an
\* await. Two starting points, both states Spec reaches: the cold start, and
\* a cache filled by a lookup at time 0 and then left idle until the access
\* token has expired while the session token still passes isCacheValid.
WarmCache ==
    [sst |-> 1, sstExpiry |-> Units(SstTtlMs), tt |-> 2, ttExpiry |-> Units(TtTtlMs)]

IdleSpan == Units(SstTtlMs - SafetyBufferMs - (TtTtlMs - SafetyBufferMs) \div 2)

InitConc ==
    /\ pc = [p \in Procs |-> "idle"]
    /\ frame = [p \in Procs |-> IdleFrame]
    /\ trace = [p \in Procs |-> <<>>]
    /\ helperCall = NoCall
    /\ \/ /\ tokenCache = EmptyCache
          /\ now = 0
          /\ ticks = 0
       \/ /\ tokenCache = WarmCache
          /\ now = IdleSpan
          /\ ticks = 1

\* a valid, configured request arrives whatever the other invocations are
\* doing (the slots are interchangeable and are taken in order)
InvokeConc(p) ==
    /\ pc[p] = "idle"
    /\ \A q \in 1..(p - 1) : pc[q] # "idle"
    /\ handler(p, "WT1", TRUE)
    /\ UNCHANGED <<now, ticks, helperCall>>

\* Every interleaving of the invocations' steps, one lookup per slot. The
\* interval timer is left out: it changes only the poll's own counters, so
\* a poll is explored up to the answer to its first fetch (data, not ready
\* or error) and a lookup told "not ready" stays suspended at its timer.
NextConc ==
    \E p \in Procs :
        \/ InvokeConc(p)
        \/ LoginResponse(p)
        \/ ExchangeResponse(p)
        \/ ValidElementsResponse(p)
        \/ ExecuteResponse(p)
        \/ FetchResponse(p)

SpecConc == InitConc /\ [][NextConc]_vars

\* Two lookups race to refresh: the container is warm, the access token has
\* expired and the session token still passes isCacheValid when the first
\* of them starts.
InitRace ==
    /\ pc = [p \in Procs |-> "idle"]
    /\ frame = [p \in Procs |-> IdleFrame]
    /\ trace = [p \in Procs |-> <<>>]
    /\ helperCall = NoCall
    /\ tokenCache = WarmCache
    /\ now = IdleSpan
    /\ ticks = 1

\* the clock advances while a token request is in flight, by half of the
\* access token's usable lifetime: from IdleSpan that is the reading
\* sstExpiry - 60000 ms, where the session token stops passing isCacheValid
TickRace ==
    /\ ticks < MaxTicks
    /\ \E p \in Procs : pc[p] = "exchange"
    /\ now' = now + Units((TtTtlMs - SafetyBufferMs) \div 2)
    /\ ticks' = ticks + 1
    /\ UNCHANGED <<tokenCache, pc, frame, trace, helperCall>>

NextRace == NextConc \/ TickRace

SpecRace == InitRace /\ [][NextRace]_vars

\* --------------------------------------- helper functions called on their own
\* no invocation is in flight and none has left anything behind
HandlerAtRest ==
    /\ ticks = 0
    /\ pc = [p \in Procs |-> "idle"]
    /\ frame = [p \in Procs |-> IdleFrame]
    /\ trace = [p \in Procs |-> <<>>]

\* isCacheValid(expiryTimestamp) at any clock reading: the argument is absent
\* (Null) or a timestamp
InitIsCacheValid ==
    /\ HandlerAtRest
    /\ tokenCache = EmptyCache
    /\ now \in 0..MaxExpiry
    /\ helperCall \in [fn : {"isCacheValid"}, expiryTimestamp : {Null} \cup 1..MaxExpiry,
                        returned : {FALSE}, result : {FALSE}]

CallIsCacheValid ==
    /\ helperCall.fn = "isCacheValid"
    /\ ~helperCall.returned
    /\ helperCall' = [helperCall EXCEPT
                          !.returned = TRUE,
                          !.result = isCacheValid(helperCall.expiryTimestamp, now)]
    /\ UNCHANGED <<tokenCache, now, ticks, pc, frame, trace>>

NextIsCacheValid == CallIsCacheValid

SpecIsCacheValid == InitIsCacheValid /\ [][NextIsCacheValid]_vars

\* the cache states invalidateTokenCache is called from: every field absent
\* or set, at a clock reading before or after the access token's expiry
CacheStates ==
    [sst : {Null} \cup 1..MaxToken, sstExpiry : {Null, Units(TtTtlMs), Units(SstTtlMs)},
     tt : {Null} \cup 1..MaxToken, ttExpiry : {Null, Units(TtTtlMs), Units(SstTtlMs)}]

InitInvalidate ==
    /\ HandlerAtRest
    /\ tokenCache \in CacheStates
    /\ now \in {0, Units(TtTtlMs)}
    /\ helperCall = [fn |-> "invalidateTokenCache", before |-> tokenCache,
                     returned |-> FALSE]

CallInvalidateTokenCache ==
    /\ helperCall.fn = "invalidateTokenCache"
    /\ ~helperCall.returned
    /\ tokenCache' = invalidateTokenCache(tokenCache)
    /\ helperCall' = [helperCall EXCEPT !.returned = TRUE]
    /\ UNCHANGED <<now, ticks, pc, frame, trace>>

NextInvalidate == CallInvalidateTokenCache

SpecInvalidate == InitInvalidate /\ [][NextInvalidate]_vars

\* characters of the report data tried: two letters, the comma, the double
\* quote, the line break and the space
CsvChars == {"a", "b", ",", "\"", "\n", " "}

\* every text of at most n of these characters
RECURSIVE TextsUpTo(_)
TextsUpTo(n) ==
    IF n = 0 THEN {""}
    ELSE LET shorter == TextsUpTo(n - 1)
         IN  shorter \cup {t \o c : t \in shorter, c \in CsvChars}

\* longer report data: a header and rows with quoted, blank, tabbed and
\* carriage-return-terminated leading fields
LongTexts ==
    {"header\n1,a\n2,b\n", "header\n\"123\",foo\n", "header\n",
     "header\n  , \n42,b\n", "header\n\"1,x\",a\n",
     "Segment\r\n 5\t,x\r\n\"6 \"\r\n", "  \n\t "}

\* what downloadReportCsv can hand to parseSegmentIds: a string, or a value
\* that is not a string
CsvInputs ==
    {[isString |-> TRUE, text |-> t] : t \in TextsUpTo(MaxLen) \cup LongTexts}
        \cup {[isString |-> FALSE, text |-> ""]}

InitParse ==
    /\ HandlerAtRest
    /\ tokenCache = EmptyCache
    /\ now = 0
    /\ helperCall \in [fn : {"parseSegmentIds"}, csvData : CsvInputs,
                        returned : {FALSE}, result : {<<>>}]

CallParseSegmentIds ==
    /\ helperCall.fn = "parseSegmentIds"
    /\ ~helperCall.returned
    /\ helperCall' = [helperCall EXCEPT !.returned = TRUE,
                                        !.result = parseSegmentIds(helperCall.csvData)]
    /\ UNCHANGED <<tokenCache, now, ticks, pc, frame, trace>>

NextParse == CallParseSegmentIds

SpecParse == InitParse /\ [][NextParse]_vars

\* ------------------------------------------------------- reading a trace
Count(tr, op) == Cardinality({k \in 1..Len(tr) : tr[k].op = op})

\* index of the first entry with this op, 0 when there is none
First(tr, op) ==
    IF \E k \in 1..Len(tr) : tr[k].op = op
    THEN CHOOSE k \in 1..Len(tr) : tr[k].op = op /\ \A j \in 1..(k - 1) : tr[j].op # op
    ELSE 0

After(tr, k) == SubSeq(tr, k + 1, Len(tr))

OpsOf(tr) == [k \in 1..Len(tr) |-> tr[k].op]

NotFoundMessage(TaskSid) == "External ID '" \o TaskSid \o "' not found in Flex Insights"

CredentialMessages == {"Authentication failed", "Failed to get temporary token"}

\* the first attempt of p ran on a token served from the cache and was the
\* first thing to fail, with HTTP 401 or 403
FirstAttemptRejected(p) ==
    /\ Len(trace[p]) >= 1
    /\ trace[p][1].op = "hit"
    /\ First(trace[p], "throw") # 0
    /\ trace[p][First(trace[p], "throw")].status \in {401, 403}

\* what p did after that first failure
AfterFirstThrow(p) == After(trace[p], First(trace[p], "throw"))

C2_AtMostOneRetry ==
    \A p \in Procs :
        LET tr == trace[p]
        IN  /\ Count(tr, "validElements") <= 2
            /\ Count(tr, "invalidate") <= 1
            /\ \A k \in 1..Len(tr) :
                   (tr[k].op = "throw" /\ \E j \in 1..(k - 1) : tr[j].op = "invalidate") =>
                       /\ k = Len(tr)
                       /\ pc[p] = "done"
                       /\ frame[p].status = 500
                       /\ frame[p].body = ErrorBody(tr[k].message)

\* the retried pipeline failed with 401 again and that was surfaced
C2_Witness ==
    \E p \in Procs :
        /\ pc[p] = "done"
        /\ Count(trace[p], "invalidate") = 1
        /\ Count(trace[p], "validElements") = 2
        /\ trace[p][Len(trace[p])].op = "throw"
        /\ trace[p][Len(trace[p])].status = 401
        /\ frame[p].status = 500

\* ------------------------------------------------------------------- C3
\* C3: the cache is invalidated (and the lookup retried) only when the token
\* of the failed first attempt was served from the cache, never when it was
\* minted during the same lookup.
C3_RetryOnlyOnCacheHit ==
    \A p \in Procs :
        Count(trace[p], "invalidate") > 0 => trace[p][1].op = "hit"

\* ------------------------------------------------------------------- C4
\* C4 as stated: a login or token response that lacks a token makes the
\* handler invalidate the cache and retry before the failure is surfaced.
C4_CredentialFailureRetried ==
    \A p \in Procs :
        \A k \in 1..Len(trace[p]) :
            (pc[p] = "done" /\ trace[p][k].op = "throw"
                /\ trace[p][k].message \in CredentialMessages) =>
                \E j \in (k + 1)..Len(trace[p]) : trace[p][j].op = "invalidate"

\* the step of p that throws a credential failure leaves the cache as it was
\* and ends the lookup
CredentialFailureStep(p) ==
    (/\ Len(trace'[p]) > Len(trace[p])
     /\ trace'[p][Len(trace'[p])].op = "throw"
     /\ trace'[p][Len(trace'[p])].message \in CredentialMessages) =>
        /\ tokenCache' = tokenCache
        /\ pc'[p] = "done"

\* C4 (amended): a login or token response that lacks a token is surfaced at
\* once: it is the last thing the lookup does, the response is 500 with that
\* error's message, and the step neither invalidates the cache nor retries.
C4_CredentialFailureSurfaced ==
    /\ [](\A p \in Procs :
            \A k \in 1..Len(trace[p]) :
                (trace[p][k].op = "throw"
                    /\ trace[p][k].message \in CredentialMessages) =>
                    /\ k = Len(trace[p])
                    /\ pc[p] = "done"
                    /\ frame[p].status = 500
                    /\ frame[p].body = ErrorBody(trace[p][k].message))
    /\ [][\A p \in Procs : CredentialFailureStep(p)]_vars

\* a cold-start login answered without a token
C4_Witness ==
    \E p \in Procs :
        /\ pc[p] = "done"
        /\ OpsOf(trace[p]) = <<"login", "throw">>
        /\ trace[p][2].message = "Authentication failed"
        /\ frame[p].status = 500

\* ------------------------------------------------------------------- C5
\* C5: whatever the identifier, a not-found failure is the last thing the
\* lookup does: no cache invalidation and no retry follow it.
C5_NotFoundNeverRetried ==
    \A p \in Procs :
        \A k \in 1..Len(trace[p]) :
            (trace[p][k].op = "throw"
                /\ trace[p][k].message = NotFoundMessage(frame[p].TaskSid)) =>
                /\ k = Len(trace[p])
                /\ pc[p] = "done"

\* ------------------------------------------------------------------- C6
\* failures the claim names: no URI, poll timeout, transport status not 401/403
NonAuthClass(e) ==
    \/ e.status = Null /\ e.message \in {"Report execution failed",
                                         "Report timeout after 10 seconds"}
    \/ e.status # Null /\ e.status \notin {401, 403}

\* C6: a first-attempt pipeline failure that is not authentication-class is
\* the last thing the lookup does: it becomes the 500 response, the cache is
\* not invalidated and no step is retried.
C6_NonAuthFailurePropagates ==
    \A p \in Procs :
        LET tr == trace[p]
        IN  \A k \in 1..Len(tr) :
                (/\ tr[k].op = "throw"
                 /\ NonAuthClass(tr[k])
                 /\ \E j \in 1..(k - 1) : tr[j].op = "validElements"
                 /\ \A j \in 1..(k - 1) : tr[j].op # "invalidate") =>
                    /\ k = Len(tr)
                    /\ pc[p] = "done"
                    /\ frame[p].status = 500
                    /\ frame[p].body = ErrorBody(tr[k].message)
                    /\ Count(tr, "validElements") = 1
                    /\ Count(tr, "invalidate") = 0

\* the first attempt's poll ran out after ten fetches
C6_Witness ==
    \E p \in Procs :
        /\ pc[p] = "done"
        /\ Len(trace[p]) > 0
        /\ Count(trace[p], "invalidate") = 0
        /\ trace[p][Len(trace[p])].op = "throw"
        /\ trace[p][Len(trace[p])].message = "Report timeout after 10 seconds"
        /\ frame[p].fetches = MaxPollAttempts

\* ------------------------------------------------------------------- C7
\* C7: when validElements finds nothing the lookup ends in the 500 response
\* carrying the not-found error, and no execute request follows the
\* validElements request of that attempt.
C7_NotFoundEndsLookup ==
    \A p \in Procs :
        \A k \in 1..Len(trace[p]) :
            (trace[p][k].op = "throw"
                /\ trace[p][k].message = NotFoundMessage(frame[p].TaskSid)) =>
                /\ k > 1
                /\ trace[p][k - 1].op = "validElements"
                /\ pc[p] = "done" =>
                       /\ frame[p].status = 500
                       /\ frame[p].body = ErrorBody(NotFoundMessage(frame[p].TaskSid))

\* ------------------------------------------------------------------- C8
\* p's handler passes validation and calls getCachedTempToken in this step
CallsGetCachedTempToken(p) == pc[p] = "idle" /\ pc'[p] \notin {"idle", "done"}

\* C8: called with a cached access token whose expiry is valid,
\* getCachedTempToken returns that token, makes no login and no token
\* request, and leaves the cache as it was.
C8_CacheHit ==
    [][\A p \in Procs :
        (/\ CallsGetCachedTempToken(p)
         /\ tokenCache.tt # Null
         /\ isCacheValid(tokenCache.ttExpiry, now)) =>
            /\ tokenCache' = tokenCache
            /\ frame'[p].token = tokenCache.tt
            /\ Count(trace'[p], "login") = 0
            /\ Count(trace'[p], "exchange") = 0
            /\ pc'[p] = "validElements"]_vars

\* a lookup running on a token served from the cache
C8_Witness ==
    \E p \in Procs :
        /\ pc[p] = "validElements"
        /\ OpsOf(trace[p]) = <<"hit", "validElements">>
        /\ frame[p].token = tokenCache.tt

\* ------------------------------------------------------------------- C9
\* C9: called with the access token absent or invalid and a valid session
\* token, getCachedTempToken makes exactly one token request (with the cached
\* session token) and no login, and neither the call nor the token response
\* changes the session slot.
C9_ExchangeOnly ==
    [][\A p \in Procs :
        /\ (/\ CallsGetCachedTempToken(p)
            /\ ~(tokenCache.tt # Null /\ isCacheValid(tokenCache.ttExpiry, now))
            /\ tokenCache.sst # Null
            /\ isCacheValid(tokenCache.sstExpiry, now)) =>
               /\ pc'[p] = "exchange"
               /\ trace'[p] = <<Ev("exchange", tokenCache.sst)>>
               /\ tokenCache' = tokenCache
        /\ (/\ pc[p] = "exchange"
            /\ pc'[p] # "exchange"
            /\ frame[p].phase = "auth"
            /\ trace[p][1].op = "exchange") =>
               /\ tokenCache'.sst = tokenCache.sst
               /\ tokenCache'.sstExpiry = tokenCache.sstExpiry
               /\ Count(trace'[p], "exchange") = 1
               /\ Count(trace'[p], "login") = 0]_vars

\* the token came from one exchange on the cached session token
C9_Witness ==
    \E p \in Procs :
        /\ pc[p] = "validElements"
        /\ OpsOf(trace[p]) = <<"exchange", "tt", "validElements">>
        /\ trace[p][1].tok = tokenCache.sst

\* ------------------------------------------------------------------ C10
\* the entries of p's first getCachedTempToken call: up to the token it
\* returned or the error it threw
FirstCall(tr) ==
    IF \E k \in 1..Len(tr) : tr[k].op \in {"hit", "tt", "throw"}
    THEN SubSeq(tr, 1, CHOOSE k \in 1..Len(tr) :
                           /\ tr[k].op \in {"hit", "tt", "throw"}
                           /\ \A j \in 1..(k - 1) : tr[j].op \notin {"hit", "tt", "throw"})
    ELSE tr

\* p's first getCachedTempToken call is over
FirstCallOver(p) ==
    \E k \in 1..Len(trace[p]) : trace[p][k].op \in {"hit", "tt", "throw"}

\* C10 as stated: a call that found both tokens absent or invalid has made,
\* when it is over, exactly one login call and then exactly one token
\* request, the latter with the session token that login stored.
C10_AlwaysLoginThenExchange ==
    \A p \in Procs :
        (FirstCallOver(p) /\ trace[p][1].op = "login") =>
            LET call == FirstCall(trace[p])
            IN  /\ Count(call, "login") = 1
                /\ Count(call, "exchange") = 1
                /\ Len(call) >= 3
                /\ call[2].op = "sst"
                /\ call[3] = Ev("exchange", call[2].tok)

\* C10 (amended): called with both tokens absent or invalid,
\* getCachedTempToken makes exactly one login call first; when that login
\* stores a session token it then makes exactly one token request, with the
\* session token that login stored; when the login fails or returns no token
\* it makes no token request.
C10_LoginThenExchange ==
    /\ [](\A p \in Procs :
            (Len(trace[p]) > 0 /\ trace[p][1].op = "login") =>
                LET call == FirstCall(trace[p])
                IN  /\ OpsOf(call) \in {<<"login">>, <<"login", "throw">>,
                                        <<"login", "sst", "exchange">>,
                                        <<"login", "sst", "exchange", "tt">>,
                                        <<"login", "sst", "exchange", "throw">>}
                    /\ Len(call) >= 3 =>
                           /\ call[3] = Ev("exchange", call[2].tok)
                           /\ Len(trace[p]) = 3 =>
                                  /\ pc[p] = "exchange"
                                  /\ tokenCache.sst = call[2].tok)
    /\ [][\A p \in Procs :
            (/\ CallsGetCachedTempToken(p)
             /\ ~(tokenCache.tt # Null /\ isCacheValid(tokenCache.ttExpiry, now))
             /\ ~(tokenCache.sst # Null /\ isCacheValid(tokenCache.sstExpiry, now))) =>
                /\ pc'[p] = "login"
                /\ trace'[p] = <<Ev("login", Null)>>
                /\ tokenCache' = tokenCache]_vars

\* both tokens were cached and have expired (the stale access token is still
\* in its slot); one login, then the exchange with the session token that
\* login stored
C10_Witness ==
    \E p \in Procs :
        /\ pc[p] = "exchange"
        /\ OpsOf(trace[p]) = <<"login", "sst", "exchange">>
        /\ trace[p][3].tok = trace[p][2].tok
        /\ tokenCache.sst = trace[p][2].tok
        /\ tokenCache.tt # Null
        /\ ~isCacheValid(tokenCache.ttExpiry, now)

\* ------------------------------------------------------------------ C11
\* the time the cached access token was issued: getTempToken stored it with
\* an expiry of ten minutes after that time
TtIssuedAt == tokenCache.ttExpiry - Units(TtTtlMs)

C12_IsValidExact ==
    (helperCall.fn = "isCacheValid" /\ helperCall.returned) =>
        helperCall.result =
            (/\ helperCall.expiryTimestamp # Null
             /\ now < helperCall.expiryTimestamp - Units(60000))

\* called at exactly expiry - 60000 it returned false
C12_Witness ==
    /\ helperCall.fn = "isCacheValid"
    /\ helperCall.returned
    /\ helperCall.expiryTimestamp # Null
    /\ now = helperCall.expiryTimestamp - Units(60000)
    /\ helperCall.result = FALSE

\* ------------------------------------------------------------------ C13
\* C13: after invalidateTokenCache, from any cache state, the session token,
\* the session expiry, the access token and the access expiry are all absent
\* and isCacheValid is false for both slots.
C13_InvalidateClearsAll ==
    (helperCall.fn = "invalidateTokenCache" /\ helperCall.returned) =>
        /\ tokenCache.sst = Null
        /\ tokenCache.sstExpiry = Null
        /\ tokenCache.tt = Null
        /\ tokenCache.ttExpiry = Null
        /\ ~isCacheValid(tokenCache.sstExpiry, now)
        /\ ~isCacheValid(tokenCache.ttExpiry, now)

\* it was called on a cache whose two slots were both set and valid
C13_Witness ==
    /\ helperCall.fn = "invalidateTokenCache"
    /\ helperCall.returned
    /\ helperCall.before.sst # Null
    /\ helperCall.before.tt # Null
    /\ isCacheValid(helperCall.before.sstExpiry, now)
    /\ isCacheValid(helperCall.before.ttExpiry, now)
    /\ tokenCache = EmptyCache

\* ------------------------------------------------------------------ C14
\* C14: while a poll runs, the fetch in flight is fetch i + 1 and i interval
\* waits came before it, each after a fetch that reported not ready; when
\* fetch N (1 <= N <= 10) answers 200 the poll returns that response's data
\* at once, after exactly N fetches and N - 1 waits, and the handler answers
\* 200 with the identifiers parsed from that data.
C14_ReadyOnNthFetch ==
    /\ [](\A p \in Procs :
            /\ pc[p] = "fetch" =>
                   /\ frame[p].fetches = frame[p].i + 1
                   /\ frame[p].waits = frame[p].i
                   /\ frame[p].fetches \in 1..10
            /\ pc[p] = "wait" =>
                   /\ frame[p].fetches = frame[p].i + 1
                   /\ frame[p].waits = frame[p].i + 1
                   /\ frame[p].lastStatus # 200
            /\ (pc[p] = "done" /\ frame[p].status = 200) =>
                   /\ frame[p].lastStatus = 200
                   /\ frame[p].fetches \in 1..10
                   /\ frame[p].waits = frame[p].fetches - 1
                   /\ frame[p].csvData \in Payloads
                   /\ frame[p].body = SegmentBody(parseSegmentIds(frame[p].csvData)))
    /\ [][\A p \in Procs :
            (pc[p] = "fetch" /\ frame'[p].lastStatus = 200) =>
                /\ pc'[p] = "done"
                /\ frame'[p].status = 200
                /\ frame'[p].fetches = frame[p].fetches
                /\ frame'[p].waits = frame[p].waits]_vars

\* nine fetches reported not ready and the tenth returned the data
C14_Witness ==
    \E p \in Procs :
        /\ pc[p] = "done"
        /\ frame[p].status = 200
        /\ frame[p].fetches = 10
        /\ frame[p].waits = 9
        /\ frame[p].body.segment_ids = <<"55", "7">>

\* ------------------------------------------------------------------ C15
\* the timeout error of downloadReportCsv
IsTimeout(e) == e.op = "throw" /\ e.message = "Report timeout after 10 seconds"

\* C15: the poll never makes an 11th fetch; the timeout error is raised only
\* after 10 fetches that all reported not ready, each followed by its
\* interval wait, and after the 10th such wait it is always raised.
C15_TimeoutAfterTenFetches ==
    /\ [](\A p \in Procs :
            /\ frame[p].fetches <= 10
            /\ \A k \in 1..Len(trace[p]) :
                   IsTimeout(trace[p][k]) =>
                       /\ k = Len(trace[p])
                       /\ pc[p] = "done"
                       /\ frame[p].fetches = 10
                       /\ frame[p].waits = 10
                       /\ frame[p].lastStatus \notin {200} \cup ErrStatuses)
    /\ [][\A p \in Procs :
            pc[p] = "wait" =>
                IF frame[p].fetches < 10
                THEN pc'[p] \in {"wait", "fetch"}
                ELSE \/ pc'[p] = "wait"
                     \/ /\ pc'[p] = "done"
                        /\ IsTimeout(trace'[p][Len(trace'[p])])
                        /\ frame'[p].status = 500]_vars

\* a poll that ran out: ten fetches, ten waits, then the timeout error
C15_Witness ==
    \E p \in Procs :
        /\ pc[p] = "done"
        /\ Len(trace[p]) > 0
        /\ IsTimeout(trace[p][Len(trace[p])])
        /\ frame[p].fetches = 10
        /\ frame[p].waits = 10
        /\ frame[p].status = 500
        /\ frame[p].body = ErrorBody("Report timeout after 10 seconds")

\* ------------------------------------------------------------------ C16
\* C16: the interval wait follows only a fetch that reported not ready; a
\* fetch answered with an error status other than 202 throws that error out
\* of the poll in the same step: the poll makes no further fetch and no
\* wait (the lookup ends with that error, or the handler starts its retry
\* with a login and no poll is running).
C16_PollErrorAborts ==
    /\ [](\A p \in Procs :
            pc[p] = "wait" => frame[p].lastStatus \notin ErrStatuses)
    /\ [][\A p \in Procs :
            (pc[p] = "fetch" /\ pc'[p] \notin {"fetch", "wait"}
                /\ frame'[p].status # 200) =>
                LET e == trace'[p][Len(trace[p]) + 1]
                IN  /\ e.op = "throw"
                    /\ e.status \in ErrStatuses \ {202}
                    /\ e = Thrown(AxiosError(e.status))
                    /\ \/ /\ pc'[p] = "done"
                          /\ frame'[p].status = 500
                          /\ frame'[p].body = ErrorBody(e.message)
                          /\ frame'[p].lastStatus = e.status
                          /\ frame'[p].fetches = frame[p].fetches
                          /\ frame'[p].waits = frame[p].waits
                       \/ /\ pc'[p] = "login"
                          /\ e.status \in {401, 403}
                          /\ frame'[p].fetches = 0
                          /\ frame'[p].waits = 0]_vars

\* the second fetch of a poll was answered 500: one wait, two fetches, over
C16_Witness ==
    \E p \in Procs :
        /\ pc[p] = "done"
        /\ frame[p].lastStatus = 500
        /\ frame[p].fetches = 2
        /\ frame[p].waits = 1
        /\ frame[p].status = 500
        /\ frame[p].body = ErrorBody("Request failed with status code 500")

\* ------------------------------------------------------------------ C17
\* the entries of the attempt that ran last: those after the invalidation
\* when the lookup retried
LastAttempt(tr) ==
    IF First(tr, "invalidate") = 0 THEN tr ELSE After(tr, First(tr, "invalidate"))

\* the requests and stores of an attempt whose every step succeeded
CompletedAttempts ==
    {<<"hit", "validElements", "execute", "parse">>,
     <<"exchange", "tt", "validElements", "execute", "parse">>,
     <<"login", "sst", "exchange", "tt", "validElements", "execute", "parse">>}

\* C17: every response is delivered once and is one of three: 200 with
\* segment_ids and no error, parsed from the data of an attempt whose every
\* step succeeded; 400 with the error 'TaskSid is required', exactly when
\* the identifier is missing (configured or not); 500 with an error and no
\* segment_ids, for missing configuration or with the message of the error
\* that ended the lookup.
C17_ResponseShapes ==
    \A p \in Procs :
        pc[p] = "done" =>
            LET fr == frame[p]
                tr == trace[p]
            IN  /\ fr.callbacks = 1
                /\ fr.status \in {200, 400, 500}
                /\ fr.TaskSid = "" <=> fr.status = 400
                /\ fr.status = 400 =>
                       /\ fr.body = ErrorBody("TaskSid is required")
                       /\ tr = <<>>
                /\ fr.status = 500 =>
                       /\ fr.body.kind = "error"
                       /\ fr.body.segment_ids = <<>>
                       /\ fr.csvData = Undefined
                       /\ IF tr = <<>>
                          THEN fr.body = ErrorBody("Missing required environment variables")
                          ELSE /\ tr[Len(tr)].op = "throw"
                               /\ fr.body = ErrorBody(tr[Len(tr)].message)
                /\ fr.status = 200 =>
                       /\ fr.body.kind = "segment_ids"
                       /\ fr.body.error = ""
                       /\ OpsOf(LastAttempt(tr)) \in CompletedAttempts
                       /\ fr.lastStatus = 200
                       /\ fr.csvData \in Payloads
                       /\ fr.body.segment_ids = parseSegmentIds(fr.csvData)

\* a lookup whose first attempt failed and whose retry completed answers 200
C17_Witness ==
    \E p \in Procs :
        /\ pc[p] = "done"
        /\ frame[p].status = 200
        /\ Count(trace[p], "invalidate") = 1
        /\ frame[p].body = SegmentBody(<<"55", "7">>)

\* ------------------------------------------------------------------ C18
\* the reference result of C18, by positions in the text
CharAt(t, k) == SubSeq(t, k, k)

Least(S) == CHOOSE x \in S : \A y \in S : x <= y

Greatest(S) == CHOOSE x \in S : \A y \in S : x >= y

RefBlank(c) == c = " " \/ c = "\t" \/ c = "\n" \/ c = "\r"

\* whitespace-trimmed: from the first to the last character that is not blank
RefTrimmed(t) ==
    LET solid == {k \in 1..Len(t) : ~RefBlank(CharAt(t, k))}
    IN  IF solid = {} THEN "" ELSE SubSeq(t, Least(solid), Greatest(solid))

\* the rows of t that start after position c: a row ends at the next line
\* break or at the end of the text
RECURSIVE RefRowsAfter(_, _)
RefRowsAfter(t, c) ==
    LET d == Least({k \in (c + 1)..Len(t) : CharAt(t, k) = "\n"} \cup {Len(t) + 1})
    IN  <<SubSeq(t, c + 1, d - 1)>>
            \o (IF d > Len(t) THEN <<>> ELSE RefRowsAfter(t, d))

\* the leading field of a row: after an optional opening double quote, the
\* characters up to the first comma, double quote or end of line, trimmed;
\* "" when that run is empty (the field is absent) or blank
RefLeadingField(row) ==
    LET start == IF Len(row) > 0 /\ CharAt(row, 1) = "\"" THEN 2 ELSE 1
        stop == Least({k \in start..Len(row) : CharAt(row, k) \in {",", "\""}}
                          \cup {Len(row) + 1})
    IN  RefTrimmed(SubSeq(row, start, stop - 1))

RefParse(csvData) ==
    IF ~csvData.isString \/ csvData.text = "" THEN <<>>
    ELSE LET rows == RefRowsAfter(RefTrimmed(csvData.text), 0)
             fields == [k \in 1..(Len(rows) - 1) |-> RefLeadingField(rows[k + 1])]
         IN  IF Len(rows) <= 1 THEN <<>>
             ELSE SelectSeq(fields, LAMBDA f : f # "")

\* C18: for every input parseSegmentIds returns the reference result: the
\* empty list for an empty input, an input that is not a string or one with
\* at most one row after trimming; otherwise the trimmed leading fields of
\* the rows after the first, in order, duplicates kept, rows whose field is
\* empty or absent dropped.
C18_ParseMatchesReference ==
    (helperCall.fn = "parseSegmentIds" /\ helperCall.returned) =>
        helperCall.result = RefParse(helperCall.csvData)

\* a row with a blank leading field was dropped and the next row's field kept
C18_Witness ==
    /\ helperCall.fn = "parseSegmentIds"
    /\ helperCall.returned
    /\ helperCall.csvData.text = "header\n  , \n42,b\n"
    /\ helperCall.result = <<"42">>

\* ------------------------------------------------------------------ C19
\* C19: in every cache state, whatever the interleaving of the lookups, the
\* session token is present exactly when the session expiry is, and the
\* access token exactly when the access expiry is; a step that writes a
\* token writes its expiry with it (the time of the write plus 14 days or
\* 10 minutes) and a step that clears a token clears its expiry.
C19_SlotsUpdatedAsPairs ==
    /\ []((tokenCache.sst = Null <=> tokenCache.sstExpiry = Null)
            /\ (tokenCache.tt = Null <=> tokenCache.ttExpiry = Null))
    /\ [][(tokenCache'.sst # tokenCache.sst =>
               tokenCache'.sstExpiry =
                   IF tokenCache'.sst = Null THEN Null
                   ELSE now' + Units(14 * 24 * 60 * 60 * 1000))
           /\ (tokenCache'.tt # tokenCache.tt =>
                  tokenCache'.ttExpiry =
                      IF tokenCache'.tt = Null THEN Null
                      ELSE now' + Units(10 * 60 * 1000))
           /\ (tokenCache'.sstExpiry # tokenCache.sstExpiry =>
                  tokenCache'.sst # tokenCache.sst)
           /\ (tokenCache'.ttExpiry # tokenCache.ttExpiry =>
                  tokenCache'.tt # tokenCache.tt)]_vars

\* two overlapping lookups each refreshed the access token; the cache holds
\* the second refresh's token and both slots are set
C19_Witness ==
    \E p, q \in Procs :
        /\ p # q
        /\ pc[p] = "validElements"
        /\ pc[q] = "validElements"
        /\ Count(trace[p], "tt") = 1
        /\ Count(trace[q], "tt") = 1
        /\ tokenCache.tt = frame[q].token
        /\ tokenCache.tt # frame[p].token
        /\ tokenCache.sst # Null
        /\ tokenCache.sstExpiry # Null
        /\ tokenCache.ttExpiry # Null

\* ------------------------------------------------------------------ C20
\* C20: a step that stores an access token leaves the cache with an access
\* expiry that is not later than the session expiry.
C20_AccessExpiryWithinSession ==
    [][\A p \in Procs :
        (pc[p] = "exchange" /\ Count(trace'[p], "tt") > Count(trace[p], "tt")) =>
            tokenCache'.ttExpiry <= tokenCache'.sstExpiry]_vars

\* ------------------------------------------------------------------ C21
\* p sends the token request in this step
CallsGetTempToken(p) == pc[p] # "exchange" /\ pc'[p] = "exchange"

\* C21: whatever the interleaving, at the moment a lookup sends the token
\* request the cache holds a session token that is present and passes
\* isCacheValid (the clock reads less than its expiry minus 60000 ms), and
\* the request carries that session token.
C21_ExchangeWithValidSession ==
    [][\A p \in Procs :
        CallsGetTempToken(p) =>
            /\ tokenCache'.sst # Null
            /\ tokenCache'.sstExpiry # Null
            /\ now' < tokenCache'.sstExpiry - Units(60000)
            /\ trace'[p][Len(trace'[p])] = Ev("exchange", tokenCache'.sst)]_vars

\* a lookup is at its token request, sent with the session token that was
\* cached then; the other lookup has since invalidated the cache, logged in
\* again and sent its own token request with the new session token
C21_Witness ==
    \E p, q \in Procs :
        /\ p # q
        /\ pc[p] = "exchange"
        /\ pc[q] = "exchange"
        /\ Count(trace[q], "invalidate") = 1
        /\ trace[p][Len(trace[p])].op = "exchange"
        /\ trace[q][Len(trace[q])] = Ev("exchange", tokenCache.sst)

\* ------------------------------------------------------------------ C22
\* the entries p's step adds to its history
NewEntries(p) ==
    IF Len(trace'[p]) > Len(trace[p])
    THEN SubSeq(trace'[p], Len(trace[p]) + 1, Len(trace'[p]))
    ELSE <<>>

\* p's login response carried a token: the session slot is written
LoginStores(p) ==
    /\ pc[p] = "login"
    /\ Len(NewEntries(p)) > 0
    /\ NewEntries(p)[1].op = "sst"
    /\ tokenCache'.tt = tokenCache.tt
    /\ tokenCache'.ttExpiry = tokenCache.ttExpiry

\* p's token response carried a token: the access slot is written
ExchangeStores(p) ==
    /\ pc[p] = "exchange"
    /\ Len(NewEntries(p)) > 0
    /\ NewEntries(p)[1].op = "tt"
    /\ tokenCache'.sst = tokenCache.sst
    /\ tokenCache'.sstExpiry = tokenCache.sstExpiry

\* p's pipeline failed with HTTP 401 or 403 and the handler invalidated
InvalidatesOnAuthFailure(p) ==
    /\ Len(NewEntries(p)) > 1
    /\ NewEntries(p)[1].op = "throw"
    /\ NewEntries(p)[1].status \in {401, 403}
    /\ NewEntries(p)[2].op = "invalidate"
    /\ tokenCache' = EmptyCache

\* C22: a step that changes any of the four cache fields is a login response
\* with a token (session slot only), a token response with a token (access
\* slot only) or the invalidation after an authentication-class failure; every
\* other step (validation, element lookup, execute, poll, parse, a login or
\* token response without a token, any other pipeline failure) leaves the
\* cache as it was.
C22_CacheChangesOnlyByAuth ==
    [][tokenCache' # tokenCache =>
          \E p \in Procs :
              \/ LoginStores(p)
              \/ ExchangeStores(p)
              \/ InvalidatesOnAuthFailure(p)]_vars

\* ------------------------------------------------------------------ C23
\* p's token response carried a token in this step
RefreshFinishes(p) ==
    /\ pc[p] = "exchange"
    /\ Len(NewEntries(p)) > 0
    /\ NewEntries(p)[1].op = "tt"

\* p found the access token expired and the session token valid, exchanged
\* it and got a token; nothing has invalidated p's view since
Refreshed(p) ==
    /\ Len(trace[p]) >= 2
    /\ trace[p][1].op = "exchange"
    /\ trace[p][2].op = "tt"
    /\ Count(trace[p], "invalidate") = 0

\* the access tokens the remote has issued to the lookups
IssuedTokens ==
    UNION {{trace[r][k].tok : k \in {j \in 1..Len(trace[r]) : trace[r][j].op = "tt"}} :
              r \in Procs}

\* C23: with the access token expired and the session token valid, each of
\* two overlapping lookups that gets a token response stores that token with
\* the expiry now + 10 min in the same step (the session slot untouched) and
\* goes on to the element lookup carrying the token it was issued, which is
\* not absent; once both have refreshed (and no lookup has invalidated the
\* cache) the cache holds one of the tokens issued, with an expiry.
C23_RedundantRefresh ==
    /\ [][\A p \in Procs :
            RefreshFinishes(p) =>
                (/\ NewEntries(p)[1].tok # Null
                 /\ tokenCache' = [tokenCache EXCEPT
                                      !.tt = NewEntries(p)[1].tok,
                                      !.ttExpiry = now' + Units(10 * 60 * 1000)]
                 /\ frame'[p].token = NewEntries(p)[1].tok
                 /\ pc'[p] = "validElements"
                 /\ trace'[p][Len(trace'[p])] =
                        Ev("validElements", NewEntries(p)[1].tok))]_vars
    /\ [](\A p, q \in Procs :
            (/\ p # q
             /\ Refreshed(p)
             /\ Refreshed(q)
             /\ \A r \in Procs : Count(trace[r], "invalidate") = 0) =>
                (/\ tokenCache.tt \in IssuedTokens
                 /\ tokenCache.tt # Null
                 /\ tokenCache.ttExpiry # Null
                 /\ tokenCache.ttExpiry <= now + Units(10 * 60 * 1000)))

\* both lookups exchanged the same session token and were issued different
\* access tokens; the clock advanced between the two responses, and the cache
\* holds the later token with the later expiry
C23_Witness ==
    \E p, q \in Procs :
        /\ p # q
        /\ Refreshed(p)
        /\ Refreshed(q)
        /\ trace[p][1].tok = trace[q][1].tok
        /\ trace[p][2].tok # trace[q][2].tok
        /\ frame[p].token = trace[p][2].tok
        /\ frame[q].token = trace[q][2].tok
        /\ tokenCache.tt = trace[q][2].tok
        /\ now > IdleSpan
        /\ tokenCache.ttExpiry = now + Units(TtTtlMs)

\* ------------------------------------------------------------------ C24
\* the entries of the first attempt: those before the invalidation
FirstAttempt(tr) ==
    IF First(tr, "invalidate") = 0 THEN tr
    ELSE SubSeq(tr, 1, First(tr, "invalidate") - 1)

\* the attempts of a lookup, as the entries of each
Attempts(tr) == {FirstAttempt(tr), LastAttempt(tr)}

\* the requests of one attempt follow one another in the pipeline's order and
\* carry the token the attempt's getCachedTempToken returned
InPipelineOrder(seg) ==
    \A k \in 1..Len(seg) :
        /\ seg[k].op = "sst" => k > 1 /\ seg[k - 1].op = "login"
        /\ seg[k].op = "exchange" =>
               (k = 1 \/ (seg[k - 1].op = "sst" /\ seg[k].tok = seg[k - 1].tok))
        /\ seg[k].op = "tt" => k > 1 /\ seg[k - 1].op = "exchange"
        /\ seg[k].op = "validElements" =>
               (/\ k > 1
                /\ seg[k - 1].op \in {"hit", "tt"}
                /\ seg[k].tok # Null
                /\ seg[k].tok = seg[k - 1].tok)
        /\ seg[k].op = "execute" =>
               (/\ k > 1
                /\ seg[k - 1].op = "validElements"
                /\ seg[k].tok = seg[k - 1].tok)
        /\ seg[k].op = "parse" =>
               (k > 1 /\ seg[k - 1].op = "execute" /\ k = Len(seg))

\* C24: in each attempt of a lookup the element lookup is sent only after
\* getCachedTempToken returned a token, the execute request only after the
\* element lookup returned at least one element, the fetches only after the
\* execute request returned a URI, and the parse only on data a fetch
\* returned with status 200; the element lookup, the execute request and the
\* fetches carry the token that the attempt's getCachedTempToken returned.
C24_PipelineOrder ==
    \A p \in Procs :
        LET tr == trace[p]
            fr == frame[p]
            last == tr[Len(tr)]
        IN  /\ \A seg \in Attempts(tr) : InPipelineOrder(seg)
            /\ pc[p] = "validElements" =>
                   (last.op = "validElements" /\ fr.token = last.tok)
            /\ pc[p] = "execute" =>
                   (/\ last.op = "execute"
                    /\ fr.token = last.tok
                    /\ Len(fr.elementUris) >= 1)
            /\ pc[p] \in {"fetch", "wait"} =>
                   (/\ last.op = "execute"
                    /\ fr.token = last.tok
                    /\ fr.uri # Null
                    /\ fr.fetches >= 1)
            /\ (Len(tr) > 0 /\ last.op = "parse") =>
                   (/\ pc[p] = "done"
                    /\ fr.fetches >= 1
                    /\ fr.uri # Null
                    /\ fr.lastStatus = 200
                    /\ fr.csvData \in Payloads
                    /\ fr.body = SegmentBody(parseSegmentIds(fr.csvData)))

\* a lookup whose first attempt ran on the cached token and whose second
\* attempt ran on a token minted after the invalidation, polled twice and
\* parsed the data
C24_Witness ==
    \E p \in Procs :
        /\ pc[p] = "done"
        /\ frame[p].status = 200
        /\ frame[p].fetches = 2
        /\ OpsOf(FirstAttempt(trace[p])) = <<"hit", "validElements", "execute", "throw">>
        /\ OpsOf(LastAttempt(trace[p])) =
               <<"login", "sst", "exchange", "tt", "validElements", "execute", "parse">>
        /\ LastAttempt(trace[p])[5].tok # FirstAttempt(trace[p])[2].tok

\* ------------------------------------------------------------------ C25
\* p's invocation has started and has not called back yet
InFlight(p) == pc[p] \notin {"idle", "done"}

\* C25: provided every request is answered and every timer fires, an
\* invocation that has started calls back, and it calls back once: the
\* callback count is 0 until the invocation is over and 1 when it is, and a
\* step that ends an invocation is the one step that raises the count.
C25_RespondsExactlyOnce ==
    /\ [](\A p \in Procs :
            /\ frame[p].callbacks = (IF pc[p] = "done" THEN 1 ELSE 0)
            /\ pc[p] = "done" => frame[p].status \in {200, 400, 500})
    /\ [][\A p \in Procs :
            frame'[p].callbacks # frame[p].callbacks =>
                (\/ pc[p] # "done" /\ pc'[p] = "done"
                 \/ pc[p] = "done" /\ pc'[p] = "idle")]_vars
    /\ \A p \in Procs : InFlight(p) ~> (pc[p] = "done")

\* a lookup that retried and then ran out of fetches has called back once
C25_Witness ==
    \E p \in Procs :
        /\ pc[p] = "done"
        /\ frame[p].callbacks = 1
        /\ frame[p].status = 500
        /\ Count(trace[p], "invalidate") = 1
        /\ IsTimeout(trace[p][Len(trace[p])])
        /\ frame[p].fetches = MaxPollAttempts

\* ------------------------------------------------------------------ C26
\* entry k of tr is the failure of the first attempt's pipeline with HTTP 401
\* or 403: the element lookup had been sent and nothing was invalidated yet
FirstAttemptUnauthorized(tr, k) ==
    /\ tr[k].op = "throw"
    /\ tr[k].status \in {401, 403}
    /\ \E j \in 1..(k - 1) : tr[j].op = "validElements"
    /\ \A j \in 1..(k - 1) : tr[j].op # "invalidate"

\* C26: whatever the other lookup did to the cache in the meantime, a lookup
\* whose first attempt fails with HTTP 401 or 403 invalidates the cache in
\* the same step and starts its one retry.
C26_RetryDespiteOthers ==
    \A p \in Procs :
        \A k \in 1..Len(trace[p]) :
            FirstAttemptUnauthorized(trace[p], k) =>
                /\ k + 1 < Len(trace[p])
                /\ trace[p][k + 1].op = "invalidate"
                /\ trace[p][k + 2].op \in {"login", "exchange", "hit"}
                /\ Count(trace[p], "invalidate") = 1

====
